---- MODULE Spec2Model ----
(***************************************************************************)
(* Secure Communication Protocol (AETHER/protocol/src/protocol.js).        *)
(*                                                                         *)
(* Two SecureCommunicationProtocol instances, A and B.  Every async method *)
(* is split at its awaits: the synchronous prefix is one step, each        *)
(* continuation is a microtask in the instance's FIFO job queue.  Timers   *)
(* and inbound frames are macrotasks: they run only when the job queue of  *)
(* the instance is empty.  Cryptography is symbolic: a ciphertext, a GCM   *)
(* tag and an HMAC are records naming the key and the data they were       *)
(* computed from, so that equality of two of them is equality of inputs.   *)
(***************************************************************************)
EXTENDS Integers, Sequences, FiniteSets, TLC

\* ---------------------------------------------------------------- bounds
MaxCalls == 3       \* application calls (initialize/connect/send/receive/close) overall
MaxInject == 1      \* frames the transport hands in that no instance of the model sent
MaxSeqIn == 2       \* largest sequence number of such a frame
StackDepth == 3     \* nested activations of _closeConnection before the call stack is exhausted
MaxReplay == 1      \* frames the transport of a lone instance hands in a second time
MaxFlipBit == 1     \* highest bit of a field of a message that is flipped
MaxCut == 1         \* a message is cut to a length at most this far from the minimum length

Inst == {"A", "B"}
Peer(i) == IF i = "A" THEN "B" ELSE "A"
Payloads == {"ping"}

\* ------------------------------------------------------------- constants
VERSION == 1
HEADER_LENGTH == 14
IV_LENGTH == 12
TAG_LENGTH == 16
HMAC_LENGTH == 32
HANDSHAKE_INIT == 1
HANDSHAKE_RESPONSE == 2
DATA == 3
ACK == 4
CLOSE == 5

\* ---------------------------------------------------------- key material
NoKey == [kind |-> "none", a |-> 0, b |-> 0]
NoKeyPair == [publicKey |-> NoKey, privateKey |-> NoKey]
NullKeys == [encryptionKey |-> NoKey, hmacKey |-> NoKey]
\* a key that neither instance derived (a wrong key)
ForeignKey == [kind |-> "foreign", a |-> 0, b |-> 0]
\* the value a KeyObject has after JSON.stringify / JSON.parse: a plain {}
PlainObject == [kind |-> "json", a |-> 0, b |-> 0]

\* generateKeyPair(): the n-th X25519 key pair of the run
generateKeyPair(n) ==
  [publicKey |-> [kind |-> "pub", a |-> n, b |-> 0],
   privateKey |-> [kind |-> "priv", a |-> n, b |-> 0]]

IsKeyObject(k) == k.kind \in {"pub", "priv"}

\* deriveSharedSecret that takes whatever it is given as the public key
deriveSharedSecret_AnyKey(privateKey, publicKey) ==
  IF privateKey.kind = "priv"
  THEN [kind |-> "dh",
        a |-> IF privateKey.a < publicKey.a THEN privateKey.a ELSE publicKey.a,
        b |-> IF privateKey.a < publicKey.a THEN publicKey.a ELSE privateKey.a]
  ELSE [kind |-> "error", a |-> 0, b |-> 0]

\* deriveSharedSecret: crypto.diffieHellman takes KeyObjects only; X25519 is
\* symmetric in the two key pairs.  "error" stands for the exception.
deriveSharedSecret(privateKey, publicKey) ==
  IF privateKey.kind = "priv" /\ publicKey.kind = "pub"
  THEN [kind |-> "dh",
        a |-> IF privateKey.a < publicKey.a THEN privateKey.a ELSE publicKey.a,
        b |-> IF privateKey.a < publicKey.a THEN publicKey.a ELSE privateKey.a]
  ELSE [kind |-> "error", a |-> 0, b |-> 0]

\* deriveKeys: HKDF output split in two halves
deriveKeys(sharedSecret) ==
  [encryptionKey |-> [kind |-> "enc", a |-> sharedSecret.a, b |-> sharedSecret.b],
   hmacKey |-> [kind |-> "mac", a |-> sharedSecret.a, b |-> sharedSecret.b]]

\* crypto.randomBytes(32) of _startHandshake, drawn by instance number n
TempKey(n) == [kind |-> "tmp", a |-> n, b |-> 0]

\* ---------------------------------------------------------------- payloads
\* A payload object; an absent property and an undefined one read the same
\* in JavaScript, so both are "undefined" / {} here.  sequenceNumber is a
\* set: {} is undefined, {n} is the number n.
Obj(type, payload, sequenceNumber, publicKey) ==
  [type |-> type, payload |-> payload, sequenceNumber |-> sequenceNumber,
   publicKey |-> publicKey]

DataPayload(message) == Obj("data", message, {}, NoKey)
HandshakePayload(publicKey) == Obj("handshake_init", "undefined", {}, publicKey)
HandshakeResponsePayload(publicKey) == Obj("handshake_response", "undefined", {}, publicKey)
AckPayload(sequenceNumber) == Obj("ack", "undefined", sequenceNumber, NoKey)
HandshakeAckPayload == Obj("handshake_ack", "undefined", {}, NoKey)
\* { reason: 'Client disconnect' }: no type, payload, sequenceNumber or publicKey
ClosePayload == Obj("undefined", "undefined", {}, NoKey)

\* JSON.stringify: undefined properties are dropped, a KeyObject (no own
\* enumerable property) is written as {}
JSONstringify(payload) ==
  [wellFormed |-> TRUE,
   value |-> [payload EXCEPT !.publicKey = IF IsKeyObject(@) THEN PlainObject ELSE @]]

\* length in bytes of the JSON text
JSONlength(text) ==
  IF ~text.wellFormed THEN 1
  ELSE 2 + (IF text.value.payload = "undefined" THEN 0 ELSE 4)
         + Cardinality(text.value.sequenceNumber)
         + (IF text.value.publicKey = NoKey THEN 0 ELSE 2)

\* ------------------------------------------------------------ AES-256-GCM
RandomIV == 1

encrypt(plaintext, key, iv) ==
  [encrypted |-> [pt |-> plaintext, key |-> key, iv |-> iv],
   iv |-> iv,
   tag |-> [pt |-> plaintext, key |-> key, iv |-> iv]]

\* The text a ciphertext decrypts to without authentication when a bit of it
\* was flipped or the key is another one: in counter mode another text.
Garbled(text) == [text EXCEPT !.wellFormed = ~@]

\* decrypt that does not check the tag
decrypt_NoTag(encrypted, key, iv, tag) ==
  [ok |-> TRUE,
   text |-> IF encrypted.key = key /\ encrypted.iv = iv THEN encrypted.pt
            ELSE Garbled(encrypted.pt)]

\* decrypt: the tag authenticates ciphertext, key and IV together
decrypt(encrypted, key, iv, tag) ==
  IF encrypted.key = key /\ encrypted.iv = iv /\ tag = encrypted
  THEN [ok |-> TRUE, text |-> encrypted.pt]
  ELSE [ok |-> FALSE, text |-> encrypted.pt]

\* ------------------------------------------------------------------- HMAC
generateHMAC(data, key) == [key |-> key, data |-> data]

\* verifyHMAC that looks at the key only
verifyHMAC_KeyOnly(data, key, expectedHMAC) == expectedHMAC.key = key

verifyHMAC(data, key, expectedHMAC) == generateHMAC(data, key) = expectedHMAC

\* ------------------------------------------------------------------ frames
\* the 14 bytes of a header, field by field: version (offset 0), message
\* type (1), sequence number (2..9), payload length (10..13)
createMessageHeader(messageType, sequenceNumber, payloadLength) ==
  <<VERSION, messageType, sequenceNumber, payloadLength>>

\* parseMessageHeader that reads the lowest bit of the sequence number only
parseMessageHeader_Narrow(headerBuffer) ==
  [version |-> headerBuffer[1], messageType |-> headerBuffer[2],
   sequenceNumber |-> headerBuffer[3] % 2, payloadLength |-> headerBuffer[4]]

parseMessageHeader(headerBuffer) ==
  [version |-> headerBuffer[1], messageType |-> headerBuffer[2],
   sequenceNumber |-> headerBuffer[3], payloadLength |-> headerBuffer[4]]

\* the bytes of a frame that precede the trailing HMAC
HmacData(m) == [header |-> m.header, iv |-> m.iv, encrypted |-> m.encrypted, tag |-> m.tag]

createMessage(messageType, sequenceNumber, payload, encryptionKey, hmacKey) ==
  LET payloadBuffer == JSONstringify(payload)
      header == createMessageHeader(messageType, sequenceNumber, JSONlength(payloadBuffer))
      encryptedData == encrypt(payloadBuffer, encryptionKey, RandomIV)
      body == [header |-> header, iv |-> encryptedData.iv,
               encrypted |-> encryptedData.encrypted, tag |-> encryptedData.tag]
  IN  [length |-> HEADER_LENGTH + IV_LENGTH + JSONlength(payloadBuffer) + TAG_LENGTH + HMAC_LENGTH,
       header |-> header, iv |-> encryptedData.iv,
       encrypted |-> encryptedData.encrypted, tag |-> encryptedData.tag,
       hmac |-> generateHMAC(body, hmacKey)]

\* Buffer.from('Mock response data'): 18 bytes, no frame at all
MockResponse ==
  [createMessage(DATA, 0, ClosePayload, NoKey, NoKey) EXCEPT !.length = 18]

NoPayload == Obj("undefined", "undefined", {}, NoKey)

\* no frame
NoFrame == [MockResponse EXCEPT !.length = 0]

\* a frame whose decrypted text is no JSON document
BadJsonMessage(sequenceNumber, encryptionKey, hmacKey) ==
  LET text == [wellFormed |-> FALSE, value |-> NoPayload]
      header == createMessageHeader(DATA, sequenceNumber, JSONlength(text))
      e == encrypt(text, encryptionKey, RandomIV)
      body == [header |-> header, iv |-> e.iv, encrypted |-> e.encrypted, tag |-> e.tag]
  IN  [length |-> HEADER_LENGTH + IV_LENGTH + JSONlength(text) + TAG_LENGTH + HMAC_LENGTH,
       header |-> header, iv |-> e.iv, encrypted |-> e.encrypted, tag |-> e.tag,
       hmac |-> generateHMAC(body, hmacKey)]

\* JSON.parse of a well-formed text
JSONparse(text) == text.value

\* parseMessage that decrypts first and verifies the HMAC afterwards
parseMessage_DecryptFirst(messageBuffer, encryptionKey, hmacKey) ==
  LET fail(e, calls) == [error |-> e, header |-> parseMessageHeader(messageBuffer.header),
                         payload |-> NoPayload, calls |-> calls]
      c1 == <<"parseMessageHeader", "decrypt">>
      c2 == <<"parseMessageHeader", "decrypt", "JSON.parse">>
  IN
  IF messageBuffer.length < HEADER_LENGTH + IV_LENGTH + TAG_LENGTH + HMAC_LENGTH
  THEN fail("Message too short", <<>>)
  ELSE LET headerInfo == parseMessageHeader(messageBuffer.header)
           decryptedPayload == decrypt(messageBuffer.encrypted, encryptionKey,
                                       messageBuffer.iv, messageBuffer.tag)
       IN  IF ~decryptedPayload.ok
           THEN fail("Unsupported state or unable to authenticate data", c1)
           ELSE IF ~decryptedPayload.text.wellFormed THEN fail("SyntaxError", c2)
           ELSE IF ~verifyHMAC(HmacData(messageBuffer), hmacKey, messageBuffer.hmac)
           THEN fail("HMAC verification failed", Append(c2, "verifyHMAC"))
           ELSE [error |-> "none", header |-> headerInfo,
                 payload |-> JSONparse(decryptedPayload.text),
                 calls |-> Append(c2, "verifyHMAC")]

\* parseMessage that rejects a buffer of the minimum length too
parseMessage_LengthOffByOne(messageBuffer, encryptionKey, hmacKey) ==
  LET fail(e, calls) == [error |-> e, header |-> parseMessageHeader(messageBuffer.header),
                         payload |-> NoPayload, calls |-> calls]
      c1 == <<"verifyHMAC", "parseMessageHeader", "decrypt">>
  IN
  IF messageBuffer.length <= HEADER_LENGTH + IV_LENGTH + TAG_LENGTH + HMAC_LENGTH
  THEN fail("Message too short", <<>>)
  ELSE IF ~verifyHMAC(HmacData(messageBuffer), hmacKey, messageBuffer.hmac)
  THEN fail("HMAC verification failed", <<"verifyHMAC">>)
  ELSE LET headerInfo == parseMessageHeader(messageBuffer.header)
           decryptedPayload == decrypt(messageBuffer.encrypted, encryptionKey,
                                       messageBuffer.iv, messageBuffer.tag)
       IN  IF ~decryptedPayload.ok
           THEN fail("Unsupported state or unable to authenticate data", c1)
           ELSE IF ~decryptedPayload.text.wellFormed
           THEN fail("SyntaxError", Append(c1, "JSON.parse"))
           ELSE [error |-> "none", header |-> headerInfo,
                 payload |-> JSONparse(decryptedPayload.text),
                 calls |-> Append(c1, "JSON.parse")]

\* parseMessage: error is "none" or the message of the exception, payload is
\* what is returned (NoPayload when it throws), calls the functions it
\* invoked, in order
parseMessage(messageBuffer, encryptionKey, hmacKey) ==
  LET fail(e, calls) == [error |-> e, header |-> parseMessageHeader(messageBuffer.header),
                         payload |-> NoPayload, calls |-> calls]
      c1 == <<"verifyHMAC", "parseMessageHeader", "decrypt">>
  IN
  IF messageBuffer.length < HEADER_LENGTH + IV_LENGTH + TAG_LENGTH + HMAC_LENGTH
  THEN fail("Message too short", <<>>)
  ELSE IF ~verifyHMAC(HmacData(messageBuffer), hmacKey, messageBuffer.hmac)
  THEN fail("HMAC verification failed", <<"verifyHMAC">>)
  ELSE LET headerInfo == parseMessageHeader(messageBuffer.header)
           decryptedPayload == decrypt(messageBuffer.encrypted, encryptionKey,
                                       messageBuffer.iv, messageBuffer.tag)
       IN  IF ~decryptedPayload.ok
           THEN fail("Unsupported state or unable to authenticate data", c1)
           ELSE IF ~decryptedPayload.text.wellFormed
           THEN fail("SyntaxError", Append(c1, "JSON.parse"))
           ELSE [error |-> "none", header |-> headerInfo,
                 payload |-> JSONparse(decryptedPayload.text),
                 calls |-> Append(c1, "JSON.parse")]

\* ------------------------------------------------------------------ state
VARIABLES
  inst,      \* inst[i]: the fields of instance i, its job queue, timers and notifications
  net,       \* net[i]: frames on their way to instance i, in order
  mock,      \* mock[i]: armed 100 ms timers of the mock _sendData of instance i
  wire,      \* wire[i]: what _sendData of instance i is, the source's mock or a link to the peer
  injected,  \* frames handed in so far that no instance sent
  bench      \* one use of createMessage / parseMessage on their own: inputs, frame, result

vars == <<inst, net, mock, wire, injected, bench>>

Job(kind, hops, h, err, payload) ==
  [kind |-> kind, hops |-> hops, h |-> h, err |-> err, payload |-> payload]

NoCall == [op |-> "none", ret |-> "none", was |-> "none"]
NoInbound == [seen |-> FALSE, parsed |-> FALSE, messageType |-> 0, sequenceNumber |-> 0,
              was |-> "none", pre |-> 0, err |-> "none", handler |-> "none",
              frame |-> NoFrame]

\* constructor
NewInstance ==
  [state |-> "disconnected", sequenceNumber |-> 0, remoteSequenceNumber |-> 0,
   sessionKeys |-> NullKeys, keyPair |-> NoKeyPair, remotePublicKey |-> NoKey,
   connection |-> FALSE, messageQueue |-> <<>>, pendingRequests |-> {},
   timeoutId |-> "null",
   \* promises and timers
   jobs |-> <<>>, sendHandles |-> <<>>, ackTimers |-> {},
   recvHandles |-> <<>>, recvTimers |-> {},
   \* the notifications fired so far: payloads of onMessage, numbers of calls
   onMessage |-> <<>>, onConnect |-> 0, onDisconnect |-> 0, onError |-> 0,
   \* application calls made so far, parity of the key pairs generated so far
   ncalls |-> 0, keysMade |-> 0,
   \* the copy a replaying transport holds of a frame it handed in and the
   \* instance dispatched (NoFrame: none), and how many frames it has handed
   \* in a second time
   accepted |-> NoFrame, replayed |-> 0,
   \* whether a DATA or ACK frame was sent or received since the idle timer
   \* was armed
   active |-> FALSE,
   \* the highest sequence number of the frames given to connection.send so
   \* far (-1: none)
   highestSent |-> -1,
   \* what the current step did (reset when the next step starts): frames given
   \* to connection.send, the application call and what it returned or threw,
   \* the inbound frame, how close() and connect() ended, calls of
   \* connection.close(), the error passed to onError, and whether the
   \* activation of _closeConnection at hand ended with an exception
   out |-> <<>>, call |-> NoCall, lastIn |-> NoInbound, closeEnd |-> "none",
   connectEnd |-> "none", transportCloses |-> 0, lastError |-> "none", exc |-> FALSE]

\* the fields of the instance alone, the record of the previous step dropped
Fields(o) ==
  [o EXCEPT !.out = <<>>, !.call = NoCall, !.lastIn = NoInbound, !.closeEnd = "none",
            !.connectEnd = "none", !.transportCloses = 0, !.lastError = "none",
            !.exc = FALSE]

Enqueue(o, job) == [o EXCEPT !.jobs = Append(@, job)]
\* connection.send(message): out holds the frames of the current step
Transmit(o, message) ==
  LET n == parseMessageHeader(message.header).sequenceNumber IN
  [o EXCEPT !.out = Append(@, message),
            !.highestSent = IF n > @ THEN n ELSE @]
Ret(o, r) == [o EXCEPT !.call = [@ EXCEPT !.ret = r]]

\* the number of the next key pair instance i generates: odd for A, even for
\* B.  keysMade wraps, so that a new pair differs from the pair it replaces.
KeyId(i, o) == 2 * o.keysMade + (IF i = "A" THEN 1 ELSE 2)

\* _startTimeout that arms nothing
_startTimeout_Never(o) == o

_startTimeout(o) == [o EXCEPT !.timeoutId = "armed", !.active = FALSE]

\* _clearTimeout that cancels the acknowledgment timers as well
_clearTimeout_AckTimers(o) == [o EXCEPT !.timeoutId = "null", !.ackTimers = {}]

_clearTimeout(o) == [o EXCEPT !.timeoutId = "null"]

\* _closeConnection.  The connection object made by connect() has
\* close: () => this._closeConnection(), and this.connection is still set
\* when it is called: each activation re-enters until the call stack is
\* exhausted.  The activation that cannot call any deeper ends with a
\* RangeError (exc), which its caller, not awaiting it, never sees.
RECURSIVE _closeConnection(_, _)
_closeConnection(o, depth) ==
  LET o1 == _clearTimeout([o EXCEPT !.state = "closed", !.exc = FALSE]) IN
  IF ~o1.connection
  THEN [o1 EXCEPT !.onDisconnect = @ + 1]
  ELSE IF depth >= StackDepth
       THEN [o1 EXCEPT !.exc = TRUE]
       ELSE LET o2 == _closeConnection([o1 EXCEPT !.transportCloses = @ + 1], depth + 1)
            IN  [o2 EXCEPT !.connection = FALSE, !.onDisconnect = @ + 1, !.exc = FALSE]

\* _handleError that notifies and does not close
_handleError_NoClose(o, err) == [o EXCEPT !.onError = @ + 1, !.lastError = err]

_handleError(o, err) ==
  LET o1 == [o EXCEPT !.onError = @ + 1, !.lastError = err] IN
  IF o1.state # "closed"
  THEN [_closeConnection(o1, 1) EXCEPT !.exc = FALSE]
  ELSE o1

\* initialize that starts the local sequence counter at 1
initialize_FromOne(o, i) ==
  [o EXCEPT !.keyPair = generateKeyPair(KeyId(i, o)), !.keysMade = 1 - @,
            !.sequenceNumber = 1, !.remoteSequenceNumber = 0,
            !.state = "handshake_init"]

initialize(o, i) ==
  [o EXCEPT !.keyPair = generateKeyPair(KeyId(i, o)), !.keysMade = 1 - @,
            !.sequenceNumber = 0, !.remoteSequenceNumber = 0,
            !.state = "handshake_init"]

\* _startHandshake up to its await; connect() has set this.connection, so
\* _sendProtocolMessage cannot fail here
_startHandshake(o, i) ==
  LET tempKey == TempKey(KeyId(i, o))
      handshakeMessage == createMessage(HANDSHAKE_INIT, o.sequenceNumber,
                            HandshakePayload(o.keyPair.publicKey), tempKey, tempKey)
      o1 == [o EXCEPT !.sequenceNumber = @ + 1]
  IN  IF o1.connection
      THEN Enqueue(Transmit(o1, handshakeMessage), Job("connect", 2, 0, "none", NoPayload))
      ELSE Enqueue(o1, Job("connectFail", 2, 0, "No connection available", NoPayload))

\* connect(remoteAddress, remotePort, keyPair) up to its await; keyPair is
\* NoKeyPair when the argument is omitted
connect(o, i, keyPair) ==
  LET o1 == IF keyPair # NoKeyPair THEN [o EXCEPT !.keyPair = keyPair, !.keysMade = 1 - @]
            ELSE IF o.keyPair = NoKeyPair THEN initialize(o, i)
            ELSE o
      o2 == [o1 EXCEPT !.state = "handshake_init", !.connection = TRUE]
  IN  Ret(_startHandshake(o2, i), "pending")

\* send() without its state check
send_NoStateCheck(o, message) ==
  LET o1 == [o EXCEPT !.sequenceNumber = @ + 1] IN
  IF o.sessionKeys = NullKeys THEN Ret(o1, "TypeError")
  ELSE LET protocolMessage == createMessage(DATA, o.sequenceNumber, DataPayload(message),
                                o.sessionKeys.encryptionKey, o.sessionKeys.hmacKey)
           h == Len(o.sendHandles) + 1
           o2 == [o1 EXCEPT !.sendHandles = Append(@, "pending")]
       IN  IF o.connection
           THEN Ret(Enqueue(Transmit(o2, protocolMessage),
                            Job("send", 1, h, "none", NoPayload)), "pending")
           ELSE Ret(Enqueue(o2, Job("sendFail", 1, h, "No connection available",
                                    NoPayload)), "pending")

\* send(message) up to its await.  The arguments of createMessage are
\* evaluated left to right: this.sequenceNumber++ comes before the read of
\* this.sessionKeys.encryptionKey
send(o, message) ==
  IF o.state # "connected" THEN Ret(o, "Invalid protocol state")
  ELSE LET o1 == [o EXCEPT !.sequenceNumber = @ + 1] IN
       IF o.sessionKeys = NullKeys THEN Ret(o1, "TypeError")
       ELSE LET protocolMessage == createMessage(DATA, o.sequenceNumber, DataPayload(message),
                                     o.sessionKeys.encryptionKey, o.sessionKeys.hmacKey)
                h == Len(o.sendHandles) + 1
                o2 == [o1 EXCEPT !.sendHandles = Append(@, "pending")]
            IN  IF o.connection
                THEN Ret(Enqueue(Transmit(o2, protocolMessage),
                                 Job("send", 1, h, "none", NoPayload)), "pending")
                ELSE Ret(Enqueue(o2, Job("sendFail", 1, h, "No connection available",
                                         NoPayload)), "pending")

\* receive(): the promise executor runs inside the call
receive(o) ==
  LET h == Len(o.recvHandles) + 1 IN
  Ret([o EXCEPT !.recvHandles = Append(@, [st |-> "pending", value |-> "undefined"]),
                !.recvTimers = @ \cup {h},
                !.messageQueue = Append(@, h)], "pending")

\* a catch block of close() that does not force the close
CloseCatch_NoForce(o) == [o EXCEPT !.closeEnd = "returned"]

\* the catch block of close(): await this._closeConnection()
CloseCatch(o) ==
  LET r == _closeConnection(o, 1) IN
  IF r.exc THEN [r EXCEPT !.closeEnd = "raised", !.exc = FALSE]
  ELSE [r EXCEPT !.closeEnd = "returned"]

\* the end of the try block of close(): await this._closeConnection()
CloseTry(o) ==
  LET r == _closeConnection(o, 1) IN
  IF r.exc THEN CloseCatch(r)
  ELSE [r EXCEPT !.closeEnd = "returned"]

\* close() without its early return
close_NoEarlyReturn(o) ==
  LET o1 == [o EXCEPT !.sequenceNumber = @ + 1] IN
  IF o.sessionKeys = NullKeys THEN Ret(CloseCatch(o1), "pending")
  ELSE LET closeMessage == createMessage(CLOSE, o.sequenceNumber, ClosePayload,
                             o.sessionKeys.encryptionKey, o.sessionKeys.hmacKey)
       IN  IF o.connection
           THEN Ret(Enqueue(Transmit(o1, closeMessage),
                            Job("close", 1, 0, "none", NoPayload)), "pending")
           ELSE Ret(Enqueue(o1, Job("closeCatch", 1, 0, "No connection available",
                                    NoPayload)), "pending")

\* close() up to its first await
close(o) ==
  IF o.state = "closed" THEN Ret([o EXCEPT !.closeEnd = "returned"], "returned")
  ELSE LET o1 == [o EXCEPT !.sequenceNumber = @ + 1] IN
       IF o.sessionKeys = NullKeys THEN Ret(CloseCatch(o1), "pending")
       ELSE LET closeMessage == createMessage(CLOSE, o.sequenceNumber, ClosePayload,
                                  o.sessionKeys.encryptionKey, o.sessionKeys.hmacKey)
            IN  IF o.connection
                THEN Ret(Enqueue(Transmit(o1, closeMessage),
                                 Job("close", 1, 0, "none", NoPayload)), "pending")
                ELSE Ret(Enqueue(o1, Job("closeCatch", 1, 0, "No connection available",
                                         NoPayload)), "pending")

\* ---------------------------------------------------------- promises, Map
\* resolve / reject of a settled promise does nothing
SettleSend(o, h, st) ==
  IF o.sendHandles[h] = "pending" THEN [o EXCEPT !.sendHandles[h] = st] ELSE o

SettleRecv(o, h, st, value) ==
  IF o.recvHandles[h].st = "pending"
  THEN [o EXCEPT !.recvHandles[h] = [st |-> st, value |-> value]]
  ELSE o

\* pendingRequests: a Map, as the set of its entries [key, h]
MapHas(map, key) == \E e \in map : e.key = key
MapGet(map, key) == (CHOOSE e \in map : e.key = key).h
MapDelete(map, key) == {e \in map : e.key # key}
MapSet(map, key, h) == MapDelete(map, key) \cup {[key |-> key, h |-> h]}

\* ------------------------------------------------------- inbound handlers
\* _handleHandshakeResponse up to its await; an exception rejects the
\* handler's promise, which _processMessage catches one tick later
_handleHandshakeResponse(o, messageData) ==
  LET o1 == [o EXCEPT !.remotePublicKey = messageData.publicKey]
      sharedSecret == deriveSharedSecret(o1.keyPair.privateKey, o1.remotePublicKey)
      o2 == [o1 EXCEPT !.sessionKeys = deriveKeys(sharedSecret)]
      ackMessage == createMessage(ACK, o2.sequenceNumber, HandshakeAckPayload,
                                  o2.sessionKeys.encryptionKey, o2.sessionKeys.hmacKey)
      o3 == [o2 EXCEPT !.sequenceNumber = @ + 1]
  IN  IF o1.keyPair = NoKeyPair
      THEN Enqueue(o1, Job("fail", 1, 0, "TypeError", NoPayload))
      ELSE IF sharedSecret.kind = "error"
      THEN Enqueue(o1, Job("fail", 1, 0, "ERR_INVALID_ARG_TYPE", NoPayload))
      ELSE IF o3.connection
      THEN Enqueue(Transmit(o3, ackMessage), Job("handshake", 1, 0, "none", NoPayload))
      ELSE Enqueue(o3, Job("fail", 2, 0, "No connection available", NoPayload))

\* _handleDataMessage up to its await
_handleDataMessage(o, messageData) ==
  LET o1 == [o EXCEPT !.onMessage = Append(@, messageData.payload)]
      ackMessage == createMessage(ACK, o1.sequenceNumber,
                                  AckPayload(messageData.sequenceNumber),
                                  o1.sessionKeys.encryptionKey, o1.sessionKeys.hmacKey)
      o2 == [o1 EXCEPT !.sequenceNumber = @ + 1]
  IN  IF o2.connection
      THEN Enqueue(Transmit(o2, ackMessage), Job("data", 1, 0, "none", messageData))
      ELSE Enqueue(o2, Job("fail", 2, 0, "No connection available", NoPayload))

\* _handleAcknowledgment that treats an ACK without a pending entry as an error
_handleAcknowledgment_Strict(o, messageData) ==
  IF \E n \in messageData.sequenceNumber : MapHas(o.pendingRequests, n)
  THEN LET n == CHOOSE n \in messageData.sequenceNumber : TRUE
           request == MapGet(o.pendingRequests, n)
       IN  SettleSend([o EXCEPT !.ackTimers = @ \ {request},
                                !.pendingRequests = MapDelete(@, n)],
                      request, "resolved")
  ELSE _handleError(o, "Unknown acknowledgment")

_handleAcknowledgment(o, messageData) ==
  IF \E n \in messageData.sequenceNumber : MapHas(o.pendingRequests, n)
  THEN LET n == CHOOSE n \in messageData.sequenceNumber : TRUE
           request == MapGet(o.pendingRequests, n)
       IN  SettleSend([o EXCEPT !.ackTimers = @ \ {request},
                                !.pendingRequests = MapDelete(@, n)],
                      request, "resolved")
  ELSE o

_handleClose(o) ==
  LET r == _closeConnection(o, 1) IN
  IF r.exc THEN Enqueue([r EXCEPT !.exc = FALSE], Job("fail", 2, 0, "RangeError", NoPayload))
  ELSE r

HandlerOf(messageType) ==
  CASE messageType = HANDSHAKE_RESPONSE -> "handshake_response"
    [] messageType = DATA -> "data"
    [] messageType = ACK -> "ack"
    [] messageType = CLOSE -> "close"
    [] OTHER -> "none"

\* the record of the frame being processed, kept for the properties
In(o, parsed, header, err, handler) ==
  [o EXCEPT !.lastIn = [seen |-> TRUE, parsed |-> parsed,
                        messageType |-> header.messageType,
                        sequenceNumber |-> header.sequenceNumber,
                        was |-> o.state, pre |-> o.remoteSequenceNumber,
                        err |-> err, handler |-> handler, frame |-> NoFrame]]

\* the switch of _processMessage
Dispatch(o, header, payload) ==
  CASE header.messageType = HANDSHAKE_RESPONSE -> _handleHandshakeResponse(o, payload)
    [] header.messageType = DATA -> _handleDataMessage(o, payload)
    [] header.messageType = ACK -> _handleAcknowledgment(o, payload)
    [] header.messageType = CLOSE -> _handleClose(o)
    [] OTHER -> _handleError([o EXCEPT !.lastIn.err = "Unknown message type"],
                             "Unknown message type")

\* _processMessage with < in place of <= in the sequence check
_processMessage_Less(o, messageBuffer) ==
  IF o.sessionKeys = NullKeys
  THEN _handleError(In(o, FALSE, parseMessageHeader(messageBuffer.header), "TypeError", "none"),
                    "TypeError")
  ELSE LET r == parseMessage(messageBuffer, o.sessionKeys.encryptionKey,
                             o.sessionKeys.hmacKey)
       IN  IF r.error # "none"
           THEN _handleError(In(o, FALSE, r.header, r.error, "none"), r.error)
           ELSE IF r.header.sequenceNumber < o.remoteSequenceNumber
           THEN _handleError(In(o, TRUE, r.header, "Invalid sequence number", "none"),
                             "Invalid sequence number")
           ELSE Dispatch([In(o, TRUE, r.header, "none", HandlerOf(r.header.messageType))
                            EXCEPT !.remoteSequenceNumber = r.header.sequenceNumber],
                         r.header, r.payload)

\* _processMessage that, having no session keys, adopts the keys of the
\* sender before it reports the failure
_processMessage_AdoptsKeys(o, messageBuffer) ==
  IF o.sessionKeys = NullKeys
  THEN _handleError(In([o EXCEPT !.sessionKeys = [encryptionKey |-> ForeignKey,
                                                  hmacKey |-> ForeignKey]],
                       FALSE, parseMessageHeader(messageBuffer.header), "TypeError", "none"),
                    "TypeError")
  ELSE LET r == parseMessage(messageBuffer, o.sessionKeys.encryptionKey,
                             o.sessionKeys.hmacKey)
       IN  IF r.error # "none"
           THEN _handleError(In(o, FALSE, r.header, r.error, "none"), r.error)
           ELSE IF r.header.sequenceNumber <= o.remoteSequenceNumber
           THEN _handleError(In(o, TRUE, r.header, "Invalid sequence number", "none"),
                             "Invalid sequence number")
           ELSE Dispatch([In(o, TRUE, r.header, "none", HandlerOf(r.header.messageType))
                            EXCEPT !.remoteSequenceNumber = r.header.sequenceNumber],
                         r.header, r.payload)

\* _processMessage that takes the sequence number from the header before
\* the message is verified
_processMessage_CountsFirst(o, messageBuffer) ==
  IF o.sessionKeys = NullKeys
  THEN _handleError(In(o, FALSE, parseMessageHeader(messageBuffer.header), "TypeError", "none"),
                    "TypeError")
  ELSE LET r == parseMessage(messageBuffer, o.sessionKeys.encryptionKey,
                             o.sessionKeys.hmacKey)
       IN  IF r.error # "none"
           THEN _handleError([In(o, FALSE, r.header, r.error, "none")
                                EXCEPT !.remoteSequenceNumber = r.header.sequenceNumber],
                             r.error)
           ELSE IF r.header.sequenceNumber <= o.remoteSequenceNumber
           THEN _handleError(In(o, TRUE, r.header, "Invalid sequence number", "none"),
                             "Invalid sequence number")
           ELSE Dispatch([In(o, TRUE, r.header, "none", HandlerOf(r.header.messageType))
                            EXCEPT !.remoteSequenceNumber = r.header.sequenceNumber],
                         r.header, r.payload)

\* _processMessage up to the first await of the handler it dispatches to
_processMessage(o, messageBuffer) ==
  IF o.sessionKeys = NullKeys
  THEN _handleError(In(o, FALSE, parseMessageHeader(messageBuffer.header), "TypeError", "none"),
                    "TypeError")
  ELSE LET r == parseMessage(messageBuffer, o.sessionKeys.encryptionKey,
                             o.sessionKeys.hmacKey)
       IN  IF r.error # "none"
           THEN _handleError(In(o, FALSE, r.header, r.error, "none"), r.error)
           ELSE IF r.header.sequenceNumber <= o.remoteSequenceNumber
           THEN _handleError(In(o, TRUE, r.header, "Invalid sequence number", "none"),
                             "Invalid sequence number")
           ELSE Dispatch([In(o, TRUE, r.header, "none", HandlerOf(r.header.messageType))
                            EXCEPT !.remoteSequenceNumber = r.header.sequenceNumber],
                         r.header, r.payload)

\* _processMessage, the frame it was given kept in the record of the step
Processed(o, messageBuffer) ==
  LET r == _processMessage(o, messageBuffer) IN
  [r EXCEPT !.lastIn.frame = messageBuffer,
            !.active = @ \/ r.lastIn.handler \in {"data", "ack"}]

\* ------------------------------------------------------------ continuations
\* what runs when the job at the head of the queue is due
RunJob(o, job) ==
  CASE job.kind = "connect" ->
         [_startTimeout([o EXCEPT !.state = "connected"])
            EXCEPT !.onConnect = @ + 1, !.connectEnd = "true"]
    [] job.kind = "connectThrow" ->
         LET o1 == [_startTimeout([o EXCEPT !.state = "connected"])
                      EXCEPT !.onConnect = @ + 1]
         IN  [_handleError(o1, job.err) EXCEPT !.connectEnd = "false"]
    [] job.kind = "connectFail" ->
         [_handleError(o, job.err) EXCEPT !.connectEnd = "false"]
    [] job.kind = "send" ->
         [o EXCEPT !.ackTimers = @ \cup {job.h},
                   !.pendingRequests = MapSet(@, o.sequenceNumber - 1, job.h)]
    [] job.kind = "sendFail" -> SettleSend(o, job.h, job.err)
    [] job.kind = "close" -> CloseTry(o)
    [] job.kind = "closeCatch" -> CloseCatch(o)
    [] job.kind = "handshake" -> _startTimeout([o EXCEPT !.state = "connected"])
    [] job.kind = "data" ->
         IF Len(o.messageQueue) > 0
         THEN LET pending == Head(o.messageQueue) IN
              SettleRecv([o EXCEPT !.messageQueue = Tail(@),
                                   !.recvTimers = @ \ {pending}],
                         pending, "resolved", job.payload.payload)
         ELSE o
    [] job.kind = "fail" -> _handleError(o, job.err)

\* ------------------------------------------------- createMessage / parseMessage
\* The message functions on their own, as the tests use them: a message is
\* built from a type, a sequence number, a payload and two keys, a bit of it
\* may be flipped, and it is parsed with two keys.
SessionKeys(n) ==
  deriveKeys(deriveSharedSecret(generateKeyPair(1).privateKey, generateKeyPair(n).publicKey))
BenchKeys == {SessionKeys(2), SessionKeys(3)}
BenchPayloads ==
  {DataPayload("ping"), AckPayload({1}), ClosePayload,
   HandshakePayload(generateKeyPair(1).publicKey)}
\* a payload that JSON represents: no KeyObject in it
JSONSerializable(payload) == ~IsKeyObject(payload.publicKey)

NoResult == [error |-> "none", header |-> parseMessageHeader(NoFrame.header),
             payload |-> NoPayload, calls |-> <<>>]
NoBench ==
  [stage |-> "off", messageType |-> 0, sequenceNumber |-> 0, payload |-> NoPayload,
   encryptionKey |-> NoKey, hmacKey |-> NoKey, message |-> NoFrame, flipped |-> "none",
   parseEncryptionKey |-> NoKey, parseHmacKey |-> NoKey, result |-> NoResult]

\* n with bit b flipped
FlipBit(n, b) == IF (n \div (2 ^ b)) % 2 = 1 THEN n - 2 ^ b ELSE n + 2 ^ b

\* Positions of a flipped bit: a bit of one of the four header fields, of
\* the IV, of the ciphertext, of the tag, of the HMAC.  A tag or an HMAC with
\* a flipped bit is a value other than the one the key gives for the data.
FlipPositions == {"version", "messageType", "sequenceNumber", "payloadLength",
                  "iv", "encrypted", "tag", "hmac"}
FlipAt(m, position, b) ==
  CASE position = "version" -> [m EXCEPT !.header[1] = FlipBit(@, b)]
    [] position = "messageType" -> [m EXCEPT !.header[2] = FlipBit(@, b)]
    [] position = "sequenceNumber" -> [m EXCEPT !.header[3] = FlipBit(@, b)]
    [] position = "payloadLength" -> [m EXCEPT !.header[4] = FlipBit(@, b)]
    [] position = "iv" -> [m EXCEPT !.iv = FlipBit(@, b)]
    [] position = "encrypted" -> [m EXCEPT !.encrypted.pt = Garbled(@)]
    [] position = "tag" -> [m EXCEPT !.tag.pt = Garbled(@)]
    [] position = "hmac" -> [m EXCEPT !.hmac.data.encrypted.pt = Garbled(@)]

InitMsg ==
  /\ inst = [i \in Inst |-> NewInstance]
  /\ net = [i \in Inst |-> <<>>]
  /\ mock = [i \in Inst |-> 0]
  /\ wire = [i \in Inst |-> "mock"]
  /\ injected = 0
  /\ \E t \in HANDSHAKE_INIT..CLOSE, n \in 0..MaxSeqIn, p \in BenchPayloads,
        e \in BenchKeys, h \in BenchKeys :
       bench = [NoBench EXCEPT !.stage = "input", !.messageType = t, !.sequenceNumber = n,
                               !.payload = p, !.encryptionKey = e.encryptionKey,
                               !.hmacKey = h.hmacKey]

Build ==
  /\ bench.stage = "input"
  /\ bench' = [bench EXCEPT !.stage = "built",
                            !.message = createMessage(bench.messageType, bench.sequenceNumber,
                                                      bench.payload, bench.encryptionKey,
                                                      bench.hmacKey)]
  /\ UNCHANGED <<inst, net, mock, wire, injected>>

Flip ==
  /\ bench.stage = "built"
  /\ \E position \in FlipPositions, b \in 0..MaxFlipBit :
       bench' = [bench EXCEPT !.stage = "flipped", !.flipped = position,
                              !.message = FlipAt(bench.message, position, b)]
  /\ UNCHANGED <<inst, net, mock, wire, injected>>

\* the shortest buffer parseMessage goes on with: header + IV + tag + HMAC
MinLength == HEADER_LENGTH + IV_LENGTH + TAG_LENGTH + HMAC_LENGTH

\* the first n bytes of a built message: its last 32 bytes are no longer the
\* HMAC field
Cut ==
  /\ bench.stage = "built"
  /\ \E n \in (MinLength - MaxCut)..(MinLength + MaxCut) :
       /\ n < bench.message.length
       /\ bench' = [bench EXCEPT !.stage = "cut", !.flipped = "truncated",
                                 !.message = [bench.message EXCEPT
                                                !.length = n,
                                                !.hmac.data.encrypted.pt = Garbled(@)]]
  /\ UNCHANGED <<inst, net, mock, wire, injected>>

Parse ==
  /\ bench.stage \in {"built", "flipped", "cut"}
  /\ \E e \in BenchKeys, h \in BenchKeys :
       bench' = [bench EXCEPT !.stage = "parsed",
                              !.parseEncryptionKey = e.encryptionKey,
                              !.parseHmacKey = h.hmacKey,
                              !.result = parseMessage(bench.message, e.encryptionKey, h.hmacKey)]
  /\ UNCHANGED <<inst, net, mock, wire, injected>>

NextMsg == Build \/ Flip \/ Cut \/ Parse

SpecMsg == InitMsg /\ [][NextMsg]_vars

\* ----------------------------------------------------------------- actions
Init ==
  /\ inst = [i \in Inst |-> NewInstance]
  /\ net = [i \in Inst |-> <<>>]
  /\ mock = [i \in Inst |-> 0]
  /\ wire \in {[i \in Inst |-> "mock"], [i \in Inst |-> "peer"]}
  /\ injected = 0
  /\ bench = NoBench

\* With the mock _sendData no frame of an instance reaches the other one:
\* the instances are independent and A alone is followed.
Active == IF wire["A"] = "mock" THEN {"A"} ELSE Inst

\* The step of instance i ends with its fields o.  _sendData: the frames
\* given to connection.send arm one mock-response timer each (source), or
\* travel to the peer.
Commit(i, o, rest) ==
  /\ inst' = [j \in Inst |-> IF j = i THEN o ELSE Fields(inst[j])]
  /\ IF wire[i] = "peer"
     THEN net' = [rest EXCEPT ![Peer(i)] = @ \o o.out] /\ mock' = mock
     ELSE mock' = [mock EXCEPT ![i] = @ + Len(o.out)] /\ net' = rest
  /\ wire' = wire
  /\ bench' = bench

CanCall == inst["A"].ncalls + inst["B"].ncalls < MaxCalls

\* the application calls op on instance i: the call, what it returned or
\* threw, and the state of the instance when it was made
Called(op, i, o) ==
  [o EXCEPT !.ncalls = @ + 1,
            !.call = [op |-> op, ret |-> o.call.ret, was |-> inst[i].state]]

Idle(i) == inst[i].jobs = <<>>

Initialize(i) ==
  /\ CanCall
  /\ Commit(i, Called("initialize", i, Ret(initialize(Fields(inst[i]), i), "returned")), net)
  /\ UNCHANGED injected

\* connect(remoteAddress, remotePort) or, on an instance that has no key
\* pair yet, connect(remoteAddress, remotePort, keyPair)
Connect(i) ==
  /\ CanCall
  /\ \E given \in (IF inst[i].keyPair = NoKeyPair THEN BOOLEAN ELSE {FALSE}) :
       Commit(i, Called("connect", i,
                        connect(Fields(inst[i]), i,
                                IF given THEN generateKeyPair(KeyId(i, inst[i]))
                                ELSE NoKeyPair)), net)
  /\ UNCHANGED injected

Send(i) ==
  /\ CanCall
  /\ \E message \in Payloads :
       LET o == send(Fields(inst[i]), message) IN
       Commit(i, Called("send", i, [o EXCEPT !.active = @ \/ o.out # <<>>]), net)
  /\ UNCHANGED injected

Receive(i) ==
  /\ CanCall
  /\ Commit(i, Called("receive", i, receive(Fields(inst[i]))), net)
  /\ UNCHANGED injected

Close(i) ==
  /\ CanCall
  /\ Commit(i, Called("close", i, close(Fields(inst[i]))), net)
  /\ UNCHANGED injected

\* one tick of the microtask queue of instance i.  The onConnect callback
\* of the application, called inside the try block of connect(), may throw.
Tick(i) ==
  /\ inst[i].jobs # <<>>
  /\ LET job == Head(inst[i].jobs)
         o == [Fields(inst[i]) EXCEPT !.jobs = Tail(@)]
     IN  IF job.hops > 1
         THEN Commit(i, Enqueue(o, [job EXCEPT !.hops = @ - 1]), net)
         ELSE \E throws \in (IF job.kind = "connect" THEN BOOLEAN ELSE {FALSE}) :
                Commit(i, RunJob(o, IF throws
                                    THEN [job EXCEPT !.kind = "connectThrow",
                                                     !.err = "Error thrown by onConnect"]
                                    ELSE job), net)
  /\ UNCHANGED injected

\* the timer of send(): deletes the entry under the sequence counter as it
\* is now, and rejects
AckTimeout(i) ==
  /\ Idle(i)
  /\ \E h \in inst[i].ackTimers :
       Commit(i, SettleSend([Fields(inst[i]) EXCEPT
                               !.ackTimers = @ \ {h},
                               !.pendingRequests = MapDelete(@, inst[i].sequenceNumber - 1)],
                            h, "Message acknowledgment timeout"), net)
  /\ UNCHANGED injected

\* the timer of receive(): rejects, the entry stays in messageQueue
ReceiveTimeout(i) ==
  /\ Idle(i)
  /\ \E h \in inst[i].recvTimers :
       Commit(i, SettleRecv([Fields(inst[i]) EXCEPT !.recvTimers = @ \ {h}],
                            h, "Receive timeout", "undefined"), net)
  /\ UNCHANGED injected

\* the timer of _startTimeout
IdleTimeout(i) ==
  /\ Idle(i)
  /\ inst[i].timeoutId = "armed"
  /\ Commit(i, _handleError([Fields(inst[i]) EXCEPT !.timeoutId = "fired"],
                            "Protocol timeout"), net)
  /\ UNCHANGED injected

\* the 100 ms timer of the mock _sendData: _simulateResponse
SimulateResponse(i) ==
  /\ Idle(i)
  /\ mock[i] > 0
  /\ LET o == Processed(Fields(inst[i]), MockResponse) IN
       /\ inst' = [j \in Inst |-> IF j = i THEN o ELSE Fields(inst[j])]
       /\ mock' = [mock EXCEPT ![i] = @ - 1 + Len(o.out)]
  /\ UNCHANGED <<net, wire, injected, bench>>

\* the transport hands the next frame of the peer to _processMessage
Deliver(i) ==
  /\ Idle(i)
  /\ net[i] # <<>>
  /\ Commit(i, Processed(Fields(inst[i]), Head(net[i])),
            [net EXCEPT ![i] = Tail(@)])
  /\ UNCHANGED injected

\* frames a transport can hand in that no instance of the model built:
\* authentic ones of every type, one with a wrong MAC key, one with a wrong
\* encryption key, one whose text is no JSON, one that is too short
InboundPayloads(messageType) ==
  CASE messageType = DATA -> {DataPayload(m) : m \in Payloads}
    [] messageType = ACK -> {AckPayload({})} \cup {AckPayload({n}) : n \in 1..MaxSeqIn}
    [] messageType = HANDSHAKE_RESPONSE -> {HandshakeResponsePayload(PlainObject)}
    [] OTHER -> {ClosePayload}

InboundFrames(o) ==
  {MockResponse,
   BadJsonMessage(MaxSeqIn, o.sessionKeys.encryptionKey, o.sessionKeys.hmacKey),
   createMessage(DATA, MaxSeqIn, ClosePayload, ForeignKey, o.sessionKeys.hmacKey),
   createMessage(DATA, MaxSeqIn, ClosePayload, o.sessionKeys.encryptionKey, ForeignKey)}
  \cup UNION {{createMessage(t, n, p, o.sessionKeys.encryptionKey, o.sessionKeys.hmacKey) :
                 p \in InboundPayloads(t)} :
              <<t, n>> \in (HANDSHAKE_INIT..CLOSE) \X (0..MaxSeqIn)}

\* The link to the peer is reliable and hands in the frames of the peer
\* only; the transport of a lone instance can hand in any frame.
HandIn(i, frames) ==
  /\ wire[i] = "mock"
  /\ Idle(i)
  /\ injected < MaxInject
  /\ injected' = injected + 1
  /\ \E f \in frames :
       LET o == Processed(Fields(inst[i]), f) IN
       Commit(i, IF o.lastIn.handler # "none" /\ o.replayed < MaxReplay
                 THEN [o EXCEPT !.accepted = f]
                 ELSE o, net)

Inject(i) == HandIn(i, InboundFrames(inst[i]))

\* the answers of a peer to the frames of a sender: authentic ACK frames
\* that refer to a sequence number, and authentic CLOSE frames
AnswerFrames(o) ==
  {createMessage(ACK, n, AckPayload({r}), o.sessionKeys.encryptionKey, o.sessionKeys.hmacKey) :
     <<n, r>> \in (1..MaxSeqIn) \X (1..MaxSeqIn)}
  \cup {createMessage(CLOSE, n, ClosePayload, o.sessionKeys.encryptionKey,
                      o.sessionKeys.hmacKey) : n \in 1..MaxSeqIn}

Answer(i) == HandIn(i, AnswerFrames(inst[i]))

\* a replaying transport hands in once more the frame the instance
\* dispatched last
Replay(i) ==
  /\ wire[i] = "mock"
  /\ Idle(i)
  /\ inst[i].accepted # NoFrame
  /\ inst[i].replayed < MaxReplay
  /\ Commit(i, Processed([Fields(inst[i]) EXCEPT !.replayed = @ + 1, !.accepted = NoFrame],
                         inst[i].accepted), net)
  /\ UNCHANGED injected

\* demo: demonstrateHandshake().  Both parties are initialized, then the
\* public keys, the session keys and the state are assigned from outside.
DemoHandshake ==
  /\ \A i \in Inst : Fields(inst[i]) = NewInstance
  /\ LET c == [i \in Inst |-> initialize(inst[i], i)]
         keys(i) == deriveKeys(deriveSharedSecret(c[i].keyPair.privateKey,
                                                  c[Peer(i)].keyPair.publicKey))
     IN  inst' = [i \in Inst |->
                   [c[i] EXCEPT !.remotePublicKey = c[Peer(i)].keyPair.publicKey,
                                !.sessionKeys = keys(i),
                                !.state = "connected"]]
  /\ UNCHANGED <<net, mock, wire, injected, bench>>

Next ==
  \/ \E i \in Active : Initialize(i)
  \/ \E i \in Active : Connect(i)
  \/ \E i \in Active : Send(i)
  \/ \E i \in Active : Receive(i)
  \/ \E i \in Active : Close(i)
  \/ \E i \in Active : Tick(i)
  \/ \E i \in Active : AckTimeout(i)
  \/ \E i \in Active : ReceiveTimeout(i)
  \/ \E i \in Active : IdleTimeout(i)
  \/ \E i \in Active : SimulateResponse(i)
  \/ \E i \in Active : Deliver(i)
  \/ \E i \in Active : Inject(i)
  \/ \E i \in Active : Replay(i)
  \/ DemoHandshake

Spec == Init /\ [][Next]_vars

\* Scheduling: a queued microtask runs, a timer that is armed fires, and the
\* reliable link hands over every frame in flight.  The application is free
\* never to call.
Fairness ==
  \A i \in Inst :
    /\ WF_vars(Tick(i))
    /\ WF_vars(Deliver(i))
    /\ WF_vars(SimulateResponse(i))
    /\ WF_vars(AckTimeout(i))
    /\ WF_vars(ReceiveTimeout(i))
    /\ WF_vars(IdleTimeout(i))

SpecFair == Init /\ [][Next]_vars /\ Fairness

\* The sends of one instance on its own: the mock _sendData of the source,
\* and a transport that hands in the answers of a peer.
InitLone == Init /\ wire = [i \in Inst |-> "mock"]

NextLone ==
  \/ Connect("A")
  \/ Send("A")
  \/ Close("A")
  \/ Tick("A")
  \/ AckTimeout("A")
  \/ IdleTimeout("A")
  \/ SimulateResponse("A")
  \/ Answer("A")
  \/ DemoHandshake

FairnessLone ==
  /\ WF_vars(Tick("A"))
  /\ WF_vars(SimulateResponse("A"))
  /\ WF_vars(AckTimeout("A"))
  /\ WF_vars(IdleTimeout("A"))

SpecLone == InitLone /\ [][NextLone]_vars /\ FairnessLone

TypeOK ==
  \A i \in Inst :
    /\ inst[i].state \in {"disconnected", "handshake_init", "handshake_response",
                          "connected", "closed"}
    /\ inst[i].sequenceNumber \in Nat
    /\ inst[i].remoteSequenceNumber \in Nat

\* ------------------------------------------------------------- properties
Last(q) == q[Len(q)]
Quiet == \A i \in Inst : inst[i].jobs = <<>> /\ net[i] = <<>>
SameKeys == inst["A"].sessionKeys = inst["B"].sessionKeys /\ inst["A"].sessionKeys # NullKeys
\* every field of instance i is the same before and after the step, the
\* count of application calls apart
Untouched(i) == Fields([inst'[i] EXCEPT !.ncalls = inst[i].ncalls]) = Fields(inst[i])
NothingSent(i) == inst'[i].out = <<>> /\ net' = net /\ mock' = mock

\* C1: handshake scenario.  A and B are joined by the reliable link, only A
\* makes calls (initialize, connect), B has processed A's HANDSHAKE_INIT and
\* nothing is left in flight or in a job queue: both are CONNECTED and hold
\* the same session keys.
C1_HandshakeCompletes ==
  \A b \in Inst :
    (/\ wire[b] = "peer"
     /\ inst[b].ncalls = 0
     /\ inst[b].lastIn.seen
     /\ inst[b].lastIn.messageType = HANDSHAKE_INIT
     /\ Quiet)
    => (/\ inst[b].lastIn.err = "none"
        /\ inst["A"].state = "connected"
        /\ inst["B"].state = "connected"
        /\ SameKeys)

\* C2: exchange scenario.  Over the reliable link and with the same session
\* keys on both sides, a DATA frame of the peer's send(p) processed in
\* CONNECTED is accepted, fires onMessage with p and is answered by one ACK;
\* and when that ACK is processed by the sender, a pending send is resolved.
C2_Exchange ==
  \A i \in Inst :
    (wire[i] = "peer" /\ SameKeys /\ inst[i].lastIn.seen)
    => (/\ (inst[i].lastIn.messageType = DATA /\ inst[i].lastIn.was = "connected")
             => (/\ inst[i].lastIn.err = "none"
                 /\ inst[i].onMessage # <<>>
                 /\ Last(inst[i].onMessage) \in Payloads
                 /\ Len(inst[i].out) = 1)
        /\ (inst[i].lastIn.messageType = ACK /\ inst[i].lastIn.parsed)
             => \E h \in DOMAIN inst[i].sendHandles : inst[i].sendHandles[h] = "resolved")

\* C3: send() in a state other than CONNECTED fails with the invalid-state
\* error and changes nothing: every field of the instance is as before and no
\* frame is transmitted.
C3_SendInvalidState ==
  [][\A i \in Inst :
       (inst'[i].call.op = "send" /\ inst[i].state # "connected")
       => (/\ inst'[i].call.ret = "Invalid protocol state"
           /\ Untouched(i)
           /\ NothingSent(i))]_vars

C3_Witness ==
  \E i \in Inst :
    /\ inst[i].call.op = "send"
    /\ inst[i].call.ret = "Invalid protocol state"
    /\ inst[i].state \in {"handshake_init", "closed"}

\* C4: receive() in a state other than CONNECTED fails with the invalid-state
\* error and enqueues no waiting receive handle.
C4_ReceiveInvalidState ==
  [][\A i \in Inst :
       (inst'[i].call.op = "receive" /\ inst[i].state # "connected")
       => (/\ inst'[i].call.ret = "Invalid protocol state"
           /\ inst'[i].messageQueue = inst[i].messageQueue)]_vars

\* C5: CLOSED is terminal: a step never takes the state of an instance from
\* CLOSED to another state.
C5_ClosedIsTerminal ==
  [][\A i \in Inst : inst[i].state = "closed" => inst'[i].state = "closed"]_vars

\* C6: in every reachable state CONNECTED implies that the session keys are
\* set, and connect() reports success only then.
C6_ConnectedHasKeys ==
  \A i \in Inst :
    (inst[i].state = "connected" \/ inst[i].connectEnd = "true")
    => inst[i].sessionKeys # NullKeys

\* C7: the disconnect notification fires exactly once per connection: in the
\* step that takes the state to CLOSED it fires once, in no other step it
\* fires at all.
C7_DisconnectOnce ==
  [][\A i \in Inst :
       /\ (inst[i].state # "closed" /\ inst'[i].state = "closed")
            => inst'[i].onDisconnect = inst[i].onDisconnect + 1
       /\ (inst'[i].onDisconnect # inst[i].onDisconnect)
            => (inst[i].state # "closed" /\ inst'[i].state = "closed")]_vars

\* C8: close() called while the state is CLOSED returns at once and does
\* nothing: no frame is built or sent, the sequence counter is not consumed,
\* no notification fires, no job is queued and the state stays CLOSED.
C8_CloseIdempotent ==
  [][\A i \in Inst :
       (inst'[i].call.op = "close" /\ inst[i].state = "closed")
       => (/\ inst'[i].call.ret = "returned"
           /\ inst'[i].closeEnd = "returned"
           /\ Untouched(i)
           /\ NothingSent(i))]_vars

C8_Witness ==
  \E i \in Inst :
    /\ inst[i].call.op = "close"
    /\ inst[i].call.ret = "returned"
    /\ inst[i].state = "closed"
    /\ inst[i].sequenceNumber > 0
    /\ inst[i].onDisconnect > 0

C10_SequenceCheck ==
  [][\A i \in Inst :
       (inst'[i].lastIn.seen /\ inst'[i].lastIn.parsed)
       => LET in == inst'[i].lastIn IN
          IF in.sequenceNumber <= inst[i].remoteSequenceNumber
          THEN /\ in.err = "Invalid sequence number"
               /\ in.handler = "none"
               /\ inst'[i].state = "closed"
               /\ inst'[i].onError = inst[i].onError + 1
               /\ inst'[i].remoteSequenceNumber = inst[i].remoteSequenceNumber
               /\ inst'[i].onMessage = inst[i].onMessage
               /\ inst'[i].sequenceNumber = inst[i].sequenceNumber
               /\ inst'[i].pendingRequests = inst[i].pendingRequests
               /\ inst'[i].sendHandles = inst[i].sendHandles
               /\ inst'[i].jobs = inst[i].jobs
               /\ inst'[i].out = <<>>
          ELSE /\ inst'[i].remoteSequenceNumber = in.sequenceNumber
               /\ in.handler = HandlerOf(in.messageType)
               /\ in.messageType = DATA
                    => /\ Len(inst'[i].onMessage) = Len(inst[i].onMessage) + 1
                       /\ inst'[i].sequenceNumber = inst[i].sequenceNumber + 1
               /\ in.messageType = CLOSE
                    => /\ inst'[i].state = "closed"
                       /\ inst'[i].onDisconnect > inst[i].onDisconnect
               /\ in.messageType \in {HANDSHAKE_RESPONSE, DATA, ACK, CLOSE}
                    => in.err = "none"
               /\ in.messageType \notin {HANDSHAKE_RESPONSE, DATA, ACK, CLOSE}
                    => (in.err = "Unknown message type" /\ inst'[i].state = "closed")]_vars

\* a frame accepted across a gap in the sequence
C10_Witness ==
  \E i \in Inst :
    /\ inst[i].lastIn.seen
    /\ inst[i].lastIn.parsed
    /\ inst[i].lastIn.err = "none"
    /\ inst[i].lastIn.sequenceNumber > inst[i].lastIn.pre + 1
    /\ inst[i].remoteSequenceNumber = inst[i].lastIn.sequenceNumber

\* the sequence number in the header of a frame, the payload it carries
SeqOf(messageBuffer) == parseMessageHeader(messageBuffer.header).sequenceNumber
PayloadOf(messageBuffer) == JSONparse(messageBuffer.encrypted.pt)

\* C11: replay protection over the whole life of an instance: a frame that
\* goes to a handler has a sequence number strictly greater than the frame
\* dispatched before it, whatever calls (initialize, connect) were made in
\* between; so a frame delivered twice is not dispatched twice.
C11_ReplayProtection ==
  [][\A i \in Inst :
       (/\ inst'[i].lastIn.seen
        /\ inst'[i].lastIn.handler # "none"
        /\ inst[i].accepted # NoFrame)
       => inst'[i].lastIn.sequenceNumber > SeqOf(inst[i].accepted)]_vars

\* C12: when the acknowledgment timer of a send fires, that send fails with
\* the ack-timeout error and no entry of the pending-request map belongs to
\* it afterwards, whatever was sent or received in the meantime.
C12_AckTimeoutRemovesOwnEntry ==
  [][\A i \in Inst : \A h \in DOMAIN inst[i].sendHandles :
       (h \in inst[i].ackTimers /\ h \notin inst'[i].ackTimers
        /\ inst[i].sendHandles[h] = "pending" /\ inst'[i].sendHandles[h] # "resolved")
       => (/\ inst'[i].sendHandles[h] = "Message acknowledgment timeout"
           /\ \A e \in inst'[i].pendingRequests : e.h # h)]_vars

\* the sequence number an inbound ACK refers to ({}: none), read from its payload
RefOf(messageBuffer) == PayloadOf(messageBuffer).sequenceNumber
\* instance i dispatches an ACK in this step
AckStep(i) == inst'[i].lastIn.seen /\ inst'[i].lastIn.handler = "ack"

\* C13: an inbound ACK that refers to sequence number n, n having an entry in
\* the pending-request map: the timer of that entry is cancelled, the entry
\* is removed and the handle of that send is resolved; every other entry,
\* timer and handle is as before.
C13_AckResolves ==
  [][\A i \in Inst : \A n \in 0..(inst[i].sequenceNumber + MaxSeqIn) :
       (/\ AckStep(i)
        /\ n \in RefOf(inst'[i].lastIn.frame)
        /\ MapHas(inst[i].pendingRequests, n))
       => LET h == MapGet(inst[i].pendingRequests, n) IN
          /\ inst'[i].ackTimers = inst[i].ackTimers \ {h}
          /\ inst'[i].pendingRequests = inst[i].pendingRequests \ {[key |-> n, h |-> h]}
          /\ inst'[i].sendHandles = [inst[i].sendHandles EXCEPT ![h] = "resolved"]]_vars

\* C14: an inbound ACK that refers to no entry of the pending-request map
\* only advances the remote sequence counter: no error notification, no
\* state change, no close, nothing sent or queued, the map and every other
\* field as before.
C14_LateAckIgnored ==
  [][\A i \in Inst :
       (/\ AckStep(i)
        /\ \A n \in RefOf(inst'[i].lastIn.frame) : ~MapHas(inst[i].pendingRequests, n))
       => (/\ inst'[i].lastIn.err = "none"
           /\ inst'[i].lastError = "none"
           /\ inst'[i].remoteSequenceNumber = inst'[i].lastIn.sequenceNumber
           /\ Fields([inst'[i] EXCEPT !.remoteSequenceNumber = inst[i].remoteSequenceNumber,
                                      !.accepted = inst[i].accepted,
                                      !.replayed = inst[i].replayed,
                                      !.active = inst[i].active])
                = Fields(inst[i])
           /\ inst'[i].out = <<>>)]_vars

\* a late ACK while another send is outstanding
C14_Witness ==
  \E i \in Inst :
    /\ inst[i].lastIn.seen
    /\ inst[i].lastIn.handler = "ack"
    /\ RefOf(inst[i].lastIn.frame) # {}
    /\ inst[i].pendingRequests # {}
    /\ \E h \in DOMAIN inst[i].sendHandles : inst[i].sendHandles[h] = "pending"
    /\ inst[i].state = "connected"
    /\ inst[i].onError = 0

\* C15: the ACK sent in reply to an accepted DATA frame refers to the
\* sequence number in the header of that DATA frame.
C15_AckReferencesHeader ==
  [][\A i \in Inst :
       (/\ inst'[i].lastIn.seen
        /\ inst'[i].lastIn.handler = "data"
        /\ inst'[i].out # <<>>)
       => (/\ parseMessageHeader(inst'[i].out[1].header).messageType = ACK
           /\ RefOf(inst'[i].out[1]) = {inst'[i].lastIn.sequenceNumber})]_vars

\* C16: every error raised while an inbound frame is processed, in
\* _processMessage itself or in the handler it awaits, is caught there: the
\* error notification fires exactly once for it, the state is CLOSED after
\* the step and nothing is sent in reply.
C16_InboundErrorsCloseOnce ==
  [][\A i \in Inst :
       /\ (inst'[i].lastIn.seen /\ inst'[i].lastIn.err # "none")
            => (/\ inst'[i].lastError = inst'[i].lastIn.err
                /\ inst'[i].onError = inst[i].onError + 1
                /\ inst'[i].state = "closed"
                /\ inst'[i].jobs = inst[i].jobs
                /\ inst'[i].out = <<>>)
       /\ (/\ inst[i].jobs # <<>>
           /\ Head(inst[i].jobs).kind = "fail"
           /\ Head(inst[i].jobs).hops = 1
           /\ inst'[i].jobs = Tail(inst[i].jobs))
            => (/\ inst'[i].lastError = Head(inst[i].jobs).err
                /\ inst'[i].onError = inst[i].onError + 1
                /\ inst'[i].state = "closed"
                /\ inst'[i].out = <<>>)]_vars

\* the failure of a handler (key agreement on a key that came through JSON)
\* reported and the connection closed
C16_Witness ==
  \E i \in Inst :
    /\ inst[i].lastError = "ERR_INVALID_ARG_TYPE"
    /\ ~inst[i].lastIn.seen
    /\ inst[i].onError = 1
    /\ inst[i].state = "closed"
    /\ inst[i].onDisconnect > 0

\* the keys given to parseMessage are the ones the message was built with
RightKeys ==
  bench.parseEncryptionKey = bench.encryptionKey /\ bench.parseHmacKey = bench.hmacKey
\* the HMAC field of the message is the HMAC of the bytes before it under the key given
HmacMatches == verifyHMAC(HmacData(bench.message), bench.parseHmacKey, bench.message.hmac)
Invoked(f) == \E k \in DOMAIN bench.result.calls : bench.result.calls[k] = f

\* C17: parseMessage verifies the HMAC before it decrypts: verifyHMAC is the
\* first function it invokes, and when the HMAC does not match it fails with
\* the HMAC error, decrypt is not invoked and no payload is returned.
C17_VerifyThenDecrypt ==
  (bench.stage = "parsed" /\ bench.message.length >= MinLength)
  => (/\ bench.result.calls # <<>> => bench.result.calls[1] = "verifyHMAC"
      /\ ~HmacMatches
           => (/\ bench.result.error = "HMAC verification failed"
               /\ ~Invoked("decrypt")
               /\ ~Invoked("JSON.parse")
               /\ bench.result.payload = NoPayload))

\* an intact message, the right encryption key, another MAC key
C17_Witness ==
  /\ bench.stage = "parsed"
  /\ bench.flipped = "none"
  /\ bench.parseEncryptionKey = bench.encryptionKey
  /\ bench.parseHmacKey # bench.hmacKey
  /\ bench.result.error = "HMAC verification failed"
  /\ bench.result.calls = <<"verifyHMAC">>

C19_TamperDetected ==
  (bench.stage = "parsed" /\ bench.flipped \in FlipPositions /\ RightKeys)
  => (/\ bench.result.error = "HMAC verification failed"
      /\ bench.result.payload = NoPayload)

\* a flipped bit in the message type of the header
C19_Witness ==
  /\ bench.stage = "parsed"
  /\ bench.flipped = "messageType"
  /\ RightKeys
  /\ parseMessageHeader(bench.message.header).messageType # bench.messageType
  /\ bench.result.error = "HMAC verification failed"

\* C20: wrong-key rejection: an intact message parsed with another MAC key
\* fails with the HMAC error; parsed with the right MAC key and another
\* encryption key it fails in decrypt; in both cases no payload is returned.
C20_WrongKeyRejected ==
  (bench.stage = "parsed" /\ bench.flipped = "none")
  => (/\ bench.parseHmacKey # bench.hmacKey
           => (/\ bench.result.error = "HMAC verification failed"
               /\ bench.result.payload = NoPayload)
      /\ (bench.parseHmacKey = bench.hmacKey
          /\ bench.parseEncryptionKey # bench.encryptionKey)
           => (/\ bench.result.error = "Unsupported state or unable to authenticate data"
               /\ bench.result.payload = NoPayload))

\* the right MAC key, another encryption key
C20_Witness ==
  /\ bench.stage = "parsed"
  /\ bench.flipped = "none"
  /\ bench.parseHmacKey = bench.hmacKey
  /\ bench.parseEncryptionKey # bench.encryptionKey
  /\ bench.result.error = "Unsupported state or unable to authenticate data"
  /\ Invoked("decrypt")

\* C21: parseMessage rejects every buffer shorter than 74 bytes with the
\* too-short error before it verifies the HMAC or decrypts, whatever the
\* keys; a buffer of 74 bytes or more passes the length test.
C21_TooShort ==
  bench.stage = "parsed"
  => IF bench.message.length < 74
     THEN /\ bench.result.error = "Message too short"
          /\ bench.result.calls = <<>>
          /\ bench.result.payload = NoPayload
     ELSE bench.result.error # "Message too short"

\* a buffer of 73 bytes and one of 74 bytes
C21_Witness ==
  /\ bench.stage = "parsed"
  /\ bench.message.length = 73
  /\ RightKeys
  /\ bench.result.error = "Message too short"

C23_IdleTimerOnlyWhenIdle ==
  [][\A i \in Inst :
       (inst[i].timeoutId = "armed" /\ inst'[i].lastError = "Protocol timeout")
       => ~inst[i].active]_vars

\* C24: in state CLOSED the pending-request map and the receive queue are
\* empty, no send or receive handle is outstanding and no timer is armed.
C24_ClosedIsClean ==
  \A i \in Inst :
    inst[i].state = "closed"
    => (/\ inst[i].pendingRequests = {}
        /\ inst[i].messageQueue = <<>>
        /\ \A h \in DOMAIN inst[i].sendHandles : inst[i].sendHandles[h] # "pending"
        /\ \A h \in DOMAIN inst[i].recvHandles : inst[i].recvHandles[h].st # "pending"
        /\ inst[i].ackTimers = {}
        /\ inst[i].recvTimers = {}
        /\ inst[i].timeoutId # "armed")

\* C25: the two outcomes of a send exclude each other: an ack timer that
\* fires belongs to a send not resolved by an ACK, and an ACK that finds an
\* entry finds the entry of a send whose timer has not failed it.
C25_AckOrTimeout ==
  [][\A i \in Inst : \A h \in DOMAIN inst[i].sendHandles :
       /\ (h \in inst[i].ackTimers /\ h \notin inst'[i].ackTimers /\ ~AckStep(i))
            => inst[i].sendHandles[h] # "resolved"
       /\ (/\ AckStep(i)
           /\ \E n \in RefOf(inst'[i].lastIn.frame) :
                [key |-> n, h |-> h] \in inst[i].pendingRequests)
            => inst[i].sendHandles[h] # "Message acknowledgment timeout"]_vars

\* the data job at the head of the queue of instance i runs in this step
DataJobStep(i) ==
  /\ inst[i].jobs # <<>>
  /\ Head(inst[i].jobs).kind = "data"
  /\ Head(inst[i].jobs).hops = 1
  /\ inst'[i].jobs = Tail(inst[i].jobs)
\* the receive handles of the queue that are still waiting, oldest first
Waiting(o) == SelectSeq(o.messageQueue, LAMBDA h : o.recvHandles[h].st = "pending")

\* C26: receive handles are served first in, first out: an accepted DATA
\* payload resolves the oldest receive handle that is still waiting, never
\* one that has failed with the receive timeout.
C26_ReceiveFIFO ==
  [][\A i \in Inst :
       (DataJobStep(i) /\ Waiting(inst[i]) # <<>>)
       => inst'[i].recvHandles[Head(Waiting(inst[i]))]
            = [st |-> "resolved", value |-> Head(inst[i].jobs).payload.payload]]_vars

\* the DATA payloads accepted so far and the ones handed to a receive()
Accepted(o) == Len(o.onMessage)
Handed(o) == Cardinality({h \in DOMAIN o.recvHandles : o.recvHandles[h].st = "resolved"})

\* C27: a DATA payload accepted while no receive() was waiting is kept, and
\* the next receive() resolves with it: a receive() made in CONNECTED while
\* an accepted payload has not been handed out resolves at once.
C27_PayloadQueued ==
  [][\A i \in Inst :
       (/\ inst'[i].call.op = "receive"
        /\ inst[i].state = "connected"
        /\ inst[i].jobs = <<>>
        /\ Accepted(inst[i]) > Handed(inst[i]))
       => inst'[i].recvHandles[Len(inst'[i].recvHandles)].st = "resolved"]_vars

\* close() was called on instance i while both sides of the reliable link
\* were CONNECTED and held the connection made by connect(); no error was
\* notified on either side, and the peer had fired no disconnect
\* notification.  The closer still holds its connection, or has called
\* connection.close() inside the call.
CloseRunning(i) ==
  /\ wire[i] = "peer"
  /\ inst[i].call.op = "close"
  /\ inst[i].call.was = "connected"
  /\ inst[i].connection \/ inst[i].transportCloses > 0
  /\ inst[Peer(i)].state = "connected"
  /\ inst[Peer(i)].connection
  /\ inst[Peer(i)].onDisconnect = 0
  /\ inst[i].onError = 0 /\ inst[Peer(i)].onError = 0

BothClosedOnce ==
  \A j \in Inst : inst[j].state = "closed" /\ inst[j].onDisconnect = 1

\* C28: with A and B both CONNECTED over the reliable link, a close() on
\* either side leads to a state in which both sides are CLOSED and each has
\* fired its disconnect notification exactly once.
C28_CloseBothSides ==
  \A i \in Inst : CloseRunning(i) ~> BothClosedOnce

\* C29: an instance that processes a CLOSE frame sends an ACK frame back.
C29_CloseIsAcknowledged ==
  [][\A i \in Inst :
       (inst'[i].lastIn.seen /\ inst'[i].lastIn.handler = "close")
       => \E k \in DOMAIN inst'[i].out :
            parseMessageHeader(inst'[i].out[k].header).messageType = ACK]_vars

\* C30: connect() never raises.  When it fails it returns false, the error
\* notification has fired for the failure and the state is CLOSED; when it
\* returns true the state is CONNECTED and the idle timer is armed.
C30_ConnectResult ==
  [][\A i \in Inst :
       /\ inst'[i].connectEnd \in {"none", "true", "false"}
       /\ inst'[i].connectEnd = "false"
            => (/\ inst'[i].onError = inst[i].onError + 1
                /\ inst'[i].lastError # "none"
                /\ inst'[i].state = "closed")
       /\ inst'[i].connectEnd = "true"
            => (/\ inst'[i].state = "connected"
                /\ inst'[i].timeoutId = "armed"
                /\ inst'[i].onError = inst[i].onError)]_vars

\* connect() that returned false
C30_Witness ==
  \E i \in Inst :
    /\ inst[i].connectEnd = "false"
    /\ inst[i].state = "closed"
    /\ inst[i].onError = 1
    /\ inst[i].timeoutId = "null"

\* C31: tearing down a connection opened by connect() terminates after one
\* call of the transport's close(): the step that drops the connection
\* invokes connection.close() exactly once, and no step invokes it more than
\* once.
C31_TeardownOnce ==
  [][\A i \in Inst :
       /\ inst'[i].transportCloses <= 1
       /\ (inst[i].connection /\ ~inst'[i].connection)
            => inst'[i].transportCloses = 1]_vars

\* the continuation of a send() of instance i runs in this step (it registers
\* the pending request) while a later send() is waiting for its own
SendResumesBeforeLaterSend(i) ==
  LET q == inst[i].jobs IN
  /\ q # <<>>
  /\ Head(q).kind = "send"
  /\ inst'[i].jobs = Tail(q)
  /\ \E k \in 2..Len(q) : q[k].kind = "send"

\* C32: with two send() calls in flight, the first to resume registers its
\* pending request under the sequence number of its own DATA frame, which
\* is lower than the one the later send() took (the counter less one), and
\* overwrites no entry.
C32_ConcurrentSends ==
  [][\A i \in Inst :
       SendResumesBeforeLaterSend(i)
       => (/\ inst[i].pendingRequests \subseteq inst'[i].pendingRequests
           /\ \E e \in inst'[i].pendingRequests :
                e.h = Head(inst[i].jobs).h /\ e.key < inst[i].sequenceNumber - 1)]_vars

\* C33: every frame an instance transmits carries a sequence number above
\* that of every frame it transmitted before, in earlier steps and earlier
\* in the same step, whatever was called in between.
C33_SequenceIncreases ==
  [][\A i \in Inst : \A k \in DOMAIN inst'[i].out :
       /\ SeqOf(inst'[i].out[k]) > inst[i].highestSent
       /\ \A j \in 1..(k - 1) : SeqOf(inst'[i].out[j]) < SeqOf(inst'[i].out[k])]_vars

\* the continuation of connect() of instance i runs in this step, right
\* after a close() that ran to completion while connect() was suspended
ConnectResumesAfterClose(i) ==
  /\ inst[i].call.op = "close"
  /\ inst[i].closeEnd = "returned"
  /\ inst[i].state = "closed"
  /\ inst[i].jobs # <<>>
  /\ Head(inst[i].jobs).kind = "connect"
  /\ inst'[i].connectEnd # "none"

\* C34: when close() has run to completion while connect() was suspended in
\* its handshake send, the continuation of connect() leaves the state
\* CLOSED, arms no idle timer and fires no connected notification.
C34_ConnectAfterClose ==
  [][\A i \in Inst :
       ConnectResumesAfterClose(i)
       => (/\ inst'[i].state = "closed"
           /\ inst'[i].timeoutId # "armed"
           /\ inst'[i].onConnect = inst[i].onConnect)]_vars

\* the h-th handle returned by send() on the instance, pending or settled
SendPending(h) ==
  h \in DOMAIN inst["A"].sendHandles /\ inst["A"].sendHandles[h] = "pending"
SendSettled(h) ==
  h \in DOMAIN inst["A"].sendHandles /\ inst["A"].sendHandles[h] # "pending"

\* C35: every handle returned by send() is settled in the end, resolved by
\* an ACK or failed, provided that queued continuations run and armed
\* timers fire; closing the connection in between does not leave it pending.
C35_SendSettles ==
  \A h \in 1..MaxCalls : SendPending(h) ~> SendSettled(h)

\* the connection was closed while a send whose DATA frame was transmitted
\* is outstanding, its acknowledgment timer armed
C35_Witness ==
  /\ inst["A"].state = "closed"
  /\ \E h \in DOMAIN inst["A"].sendHandles :
       inst["A"].sendHandles[h] = "pending" /\ h \in inst["A"].ackTimers

\* C36: the calls, the inbound frames and the timers never set the session
\* keys of an instance that has none (as every instance after construction):
\* a step that sets them is an assignment from outside, the demo's.
C36_KeysNeverSet ==
  [][DemoHandshake
     \/ \A i \in Inst :
          inst[i].sessionKeys = NullKeys => inst'[i].sessionKeys = NullKeys]_vars

\* a HANDSHAKE_RESPONSE frame handed to an instance that has called
\* connect() and has no session keys
C36_Witness ==
  \E i \in Inst :
    /\ inst[i].lastIn.seen
    /\ inst[i].lastIn.messageType = HANDSHAKE_RESPONSE
    /\ inst[i].lastIn.err = "TypeError"
    /\ inst[i].onConnect = 1
    /\ inst[i].sessionKeys = NullKeys

\* C37: an instance that has consumed no sequence number transmits its first
\* frame with sequence number 0; an instance whose remote counter is 0
\* rejects a frame with sequence number 0 and is closed, with the sequence
\* error when the frame is authentic: the first frame between two fresh
\* instances is never accepted.
C37_FirstFrameRejected ==
  [][\A i \in Inst :
       /\ (inst[i].sequenceNumber = 0 /\ inst[i].highestSent = -1 /\ inst'[i].out # <<>>)
            => SeqOf(inst'[i].out[1]) = 0
       /\ (/\ inst'[i].lastIn.seen
           /\ inst'[i].lastIn.sequenceNumber = 0
           /\ inst[i].remoteSequenceNumber = 0)
            => (/\ inst'[i].lastIn.err # "none"
                /\ inst'[i].lastIn.handler = "none"
                /\ inst'[i].onError = inst[i].onError + 1
                /\ inst'[i].state = "closed"
                /\ inst'[i].lastIn.parsed => inst'[i].lastIn.err = "Invalid sequence number")]_vars

\* an authentic frame with sequence number 0 was rejected with the sequence
\* error by a CONNECTED instance whose remote counter was 0
C37_Witness ==
  \E i \in Inst :
    /\ inst[i].lastIn.seen
    /\ inst[i].lastIn.parsed
    /\ inst[i].lastIn.sequenceNumber = 0
    /\ inst[i].lastIn.pre = 0
    /\ inst[i].lastIn.was = "connected"
    /\ inst[i].lastIn.err = "Invalid sequence number"
    /\ inst[i].state = "closed"

\* C38: an inbound frame that arrives in state CLOSED is not dispatched: no
\* handler runs, no message-received and no further disconnect notification
\* fires, the remote sequence counter and the session keys keep their
\* values, and no frame is sent.
C38_ClosedIgnoresFrames ==
  [][\A i \in Inst :
       (inst'[i].lastIn.seen /\ inst[i].state = "closed")
       => (/\ inst'[i].lastIn.handler = "none"
           /\ inst'[i].onMessage = inst[i].onMessage
           /\ inst'[i].onDisconnect = inst[i].onDisconnect
           /\ inst'[i].remoteSequenceNumber = inst[i].remoteSequenceNumber
           /\ inst'[i].sessionKeys = inst[i].sessionKeys
           /\ inst'[i].out = <<>>)]_vars

\* the errors parseMessage raises: length check, HMAC verification,
\* decryption, payload decoding
ParseFailures ==
  {"Message too short", "HMAC verification failed",
   "Unsupported state or unable to authenticate data", "SyntaxError"}

\* C39: an inbound frame that fails the length check, the HMAC verification,
\* the decryption or the payload decoding is reported once and closes the
\* connection; the remote and the local sequence counter, the session keys,
\* the pending-request map, the receive queue, the handles and the messages
\* notified are as before, no handler runs and nothing is sent.
C39_RejectedFrameNoEffect ==
  [][\A i \in Inst :
       (inst'[i].lastIn.seen /\ inst'[i].lastIn.err \in ParseFailures)
       => (/\ inst'[i].remoteSequenceNumber = inst[i].remoteSequenceNumber
           /\ inst'[i].sessionKeys = inst[i].sessionKeys
           /\ inst'[i].sequenceNumber = inst[i].sequenceNumber
           /\ inst'[i].pendingRequests = inst[i].pendingRequests
           /\ inst'[i].messageQueue = inst[i].messageQueue
           /\ inst'[i].sendHandles = inst[i].sendHandles
           /\ inst'[i].recvHandles = inst[i].recvHandles
           /\ inst'[i].onMessage = inst[i].onMessage
           /\ inst'[i].lastIn.handler = "none"
           /\ inst'[i].out = <<>>
           /\ inst'[i].onError = inst[i].onError + 1
           /\ inst'[i].state = "closed")]_vars

\* a frame that failed the HMAC verification or the decryption closed a
\* CONNECTED instance that has a send outstanding
C39_Witness ==
  \E i \in Inst :
    /\ inst[i].lastIn.seen
    /\ inst[i].lastIn.err \in {"HMAC verification failed",
                               "Unsupported state or unable to authenticate data"}
    /\ inst[i].lastIn.was = "connected"
    /\ inst[i].lastIn.sequenceNumber > inst[i].remoteSequenceNumber
    /\ inst[i].pendingRequests # {}
    /\ inst[i].state = "closed"

\* the receive handles of instance i that this step resolves
ResolvedNow(i) ==
  {h \in DOMAIN inst[i].recvHandles :
     inst[i].recvHandles[h].st = "pending" /\ inst'[i].recvHandles[h].st = "resolved"}

\* C40: an inbound DATA frame accepted in CONNECTED, a state that connect()
\* has set and notified, first fires the message-received notification
\* once with its payload and then sends one
\* ACK frame that carries the next local sequence number, no receive handle
\* being resolved yet; when the handler resumes it resolves at most one
\* waiting receive handle, with that payload, and notifies and sends nothing
\* more.
C40_DataFrameOrder ==
  [][\A i \in Inst :
       /\ (/\ inst'[i].lastIn.seen
           /\ inst'[i].lastIn.handler = "data"
           /\ inst[i].state = "connected"
           /\ inst[i].onConnect > 0)
            => (/\ inst'[i].onMessage
                     = Append(inst[i].onMessage, PayloadOf(inst'[i].lastIn.frame).payload)
                /\ Len(inst'[i].out) = 1
                /\ parseMessageHeader(inst'[i].out[1].header).messageType = ACK
                /\ SeqOf(inst'[i].out[1]) = inst[i].sequenceNumber
                /\ inst'[i].sequenceNumber = inst[i].sequenceNumber + 1
                /\ ResolvedNow(i) = {}
                /\ inst'[i].jobs # <<>>
                /\ Last(inst'[i].jobs).kind = "data"
                /\ Last(inst'[i].jobs).payload = PayloadOf(inst'[i].lastIn.frame))
       /\ DataJobStep(i)
            => (/\ Cardinality(ResolvedNow(i)) <= 1
                /\ \A h \in ResolvedNow(i) :
                     inst'[i].recvHandles[h].value = Head(inst[i].jobs).payload.payload
                /\ inst'[i].onMessage = inst[i].onMessage
                /\ inst'[i].out = <<>>)]_vars
====
